---- MODULE Spec2Model ----
(***************************************************************************)
(* Model of the multicore execution simulator: the set-associative L1      *)
(* cache with LRU replacement (cache.rs), the metrics sink (metrics.rs),   *)
(* the thread-to-core mapping (scheduler.rs) and the cycle-stepping        *)
(* engine (simulator.rs).                                                  *)
(*                                                                         *)
(* Four specifications share the module:                                   *)
(*   CacheSpec    a stand-alone Cache: construction from a configuration   *)
(*                followed by a bounded sequence of accesses;              *)
(*   SchedSpec    a stand-alone Scheduler and calls of its two mappings;   *)
(*   MetricsSpec  a stand-alone Metrics: recorded accesses and the derived *)
(*                f64 queries;                                             *)
(*   Spec         the Simulator: new, load_workload, step,                 *)
(*                run_to_completion.                                       *)
(* Variables of the specifications that are not running stay at their      *)
(* initial values.                                                         *)
(***************************************************************************)
EXTENDS Integers, Sequences, FiniteSets, TLC

VARIABLES
    cstatus,        \* stand-alone cache: "unbuilt" | "built" | "panicked"
    cache,          \* stand-alone cache: the Cache value
    clock,          \* ghost: number of accesses made to the stand-alone cache
    lastUse,        \* ghost: <<set, tag>> -> clocks of that line's last fill and last access
    last,           \* ghost: what the last access did
    history,        \* ghost: the accesses made, in order: address and result
    pc,             \* simulator: position of the caller
    num_cores,      \* Simulator.num_cores
    num_threads,    \* Simulator.num_threads
    cores,          \* Simulator.cores : 0..num_cores-1 -> CoreState
    memory,         \* Simulator.memory (its MemoryConfig)
    metrics,        \* Simulator.metrics
    current_cycle,  \* Simulator.current_cycle
    nsteps,         \* ghost: number of step calls made
    retired,        \* ghost: per core, the ids of retired instructions in retire order
    given,          \* ghost: the arguments of Simulator::new and of load_workload
    solo,           \* ghost: per core c, a one-core engine that runs c's streams alone
    log,            \* ghost: what the steps taken so far did, per core and per instruction
    sstatus,        \* stand-alone scheduler: "unbuilt" | "built" | "panicked"
    sched,          \* stand-alone scheduler: the Scheduler value
    slast,          \* ghost: the last call made on the scheduler and what it returned
    assigned,       \* ghost: thread id -> the core its first thread_to_core call returned
    scalls,         \* ghost: number of calls made on the scheduler
    mobj,           \* stand-alone metrics: the Metrics value
    queried         \* ghost: the last query made on the metrics, its result and the
                    \* counters it was made on

cacheVars == <<cstatus, cache, clock, lastUse, last, history>>
simVars == <<pc, num_cores, num_threads, cores, memory, metrics, current_cycle,
             nsteps, retired, given, solo, log>>
schedVars == <<sstatus, sched, slast, assigned, scalls>>
metricsVars == <<mobj, queried>>
vars == <<cstatus, cache, clock, lastUse, last, history, pc, num_cores, num_threads, cores,
          memory, metrics, current_cycle, nsteps, retired, given, solo, log,
          sstatus, sched, slast, assigned, scalls, mobj, queried>>

----------------------------------------------------------------------------
(* Bounds of the model. *)

\* accesses made to the stand-alone cache
MaxAccesses == 5
\* instructions in a workload, over all threads
MaxInstrs == 2
\* step calls the caller makes itself before it calls run_to_completion
MaxManualSteps == 3
\* iterations of a run_to_completion loop that changes nothing which are followed
MaxSpin == 3

\* configurations the stand-alone cache is built from
Sizes == {0, 6, 8, 12}
LineSizes == {0, 2, 3}
Assocs == {0, 1, 2, 3}
\* addresses accessed
Addresses == {0, 1, 2, 4, 6, 8}

\* calls made on the stand-alone scheduler
MaxCalls == 3
\* largest thread id and core id passed to the stand-alone scheduler
MaxId == 5
\* core counts and thread counts the stand-alone scheduler is built from
SchedCounts == {0, 1, 2, 3, 4}

\* accesses recorded on the stand-alone metrics
MaxRecords == 5
\* cycle counts stored in the stand-alone metrics, and ideal cycle counts supplied
CycleCounts == {0, 1, 100, 107, 117, 300}
IdealCycles == {0, 1, 3, 100}

\* configurations the simulator is built from
CoreCounts == {0, 1, 2}
ThreadCounts == {0, 1, 2}
Widths == {0, 1, 2}
MemLatencies == {0, 2}
HitLatencies == {0, 1}
SimSizes == {0, 2}
SimLineSizes == {2}
SimAssocs == {1}
\* addresses of the Load and Store instructions of a workload
SimAddresses == {0, 2}

----------------------------------------------------------------------------
(* Integer helpers: the bit operations of cache.rs on u64/usize values. *)

RECURSIVE Pow2(_)
Pow2(k) == IF k = 0 THEN 1 ELSE 2 * Pow2(k - 1)

\* usize::trailing_zeros / u64::trailing_zeros; 64 for zero
RECURSIVE trailing_zeros(_)
trailing_zeros(n) ==
    IF n = 0 THEN 64
    ELSE IF n % 2 = 1 THEN 0
    ELSE 1 + trailing_zeros(n \div 2)

\* u64::count_ones
RECURSIVE count_ones(_)
count_ones(n) == IF n = 0 THEN 0 ELSE (n % 2) + count_ones(n \div 2)

\* x >> k on u64
Shr(x, k) == x \div Pow2(k)

\* x & y on u64
RECURSIVE BitAnd(_, _)
BitAnd(x, y) ==
    IF x = 0 \/ y = 0 THEN 0
    ELSE (x % 2) * (y % 2) + 2 * BitAnd(x \div 2, y \div 2)

\* n is a positive power of two
IsPow2(n) == \E k \in 0..16 : n = Pow2(k)

----------------------------------------------------------------------------
(* cache.rs *)

CacheConfigs ==
    [size_bytes : Sizes, line_size : LineSizes, associativity : Assocs,
     hit_latency_cycles : {1}]

\* CacheConfig::num_sets; the caller guards the divisions by zero
num_sets(config) == (config.size_bytes \div config.line_size) \div config.associativity

\* CacheSet::new
CacheSet_new(associativity) ==
    [lines |-> [w \in 0..(associativity - 1) |-> [tag |-> 0, valid |-> FALSE]],
     lru_order |-> [p \in 1..associativity |-> p - 1]]

\* VecDeque::iter().position(|&w| w == way): 0 when absent, else the 1-based position
Position(order, way) ==
    IF \E p \in 1..Len(order) : order[p] = way
    THEN CHOOSE p \in 1..Len(order) :
            order[p] = way /\ \A q \in 1..(p - 1) : order[q] # way
    ELSE 0

\* VecDeque::remove(pos)
RemoveAt(order, pos) ==
    [p \in 1..(Len(order) - 1) |-> IF p < pos THEN order[p] ELSE order[p + 1]]

\* a touch that forgets to remove the way from its old position
touch_NoRemove(set, way) ==
    [set EXCEPT !.lru_order = <<way>> \o set.lru_order]

\* CacheSet::touch
touch(set, way) ==
    LET pos == Position(set.lru_order, way)
    IN  IF pos = 0 THEN set
        ELSE [set EXCEPT !.lru_order = <<way>> \o RemoveAt(set.lru_order, pos)]

\* the ways holding a valid line with this tag
MatchingWays(set, tag) ==
    {w \in DOMAIN set.lines : set.lines[w].valid /\ set.lines[w].tag = tag}

\* least element of a non-empty set of naturals
Min(S) == CHOOSE x \in S : \A y \in S : x <= y

\* an access whose hit does not refresh the recency of the line (FIFO replacement)
CacheSet_access_NoTouch(set, tag) ==
    IF MatchingWays(set, tag) # {}
    THEN [set |-> set, result |-> "Hit"]
    ELSE [set |-> set, result |-> "Miss"]

\* CacheSet::access: the first matching way is touched
CacheSet_access(set, tag) ==
    LET ways == MatchingWays(set, tag)
    IN  IF ways # {}
        THEN [set |-> touch(set, Min(ways)), result |-> "Hit"]
        ELSE [set |-> set, result |-> "Miss"]

\* an allocate that fills only an invalid way and never replaces a valid line
allocate_KeepValid(set, tag) ==
    IF Len(set.lru_order) = 0 THEN set
    ELSE LET victim_way == set.lru_order[Len(set.lru_order)]
         IN  IF set.lines[victim_way].valid THEN set
             ELSE touch([set EXCEPT !.lines[victim_way] = [tag |-> tag, valid |-> TRUE]],
                        victim_way)

\* CacheSet::allocate
allocate(set, tag) ==
    IF Len(set.lru_order) = 0 THEN set
    ELSE LET victim_way == set.lru_order[Len(set.lru_order)]
         IN  touch([set EXCEPT !.lines[victim_way] = [tag |-> tag, valid |-> TRUE]],
                   victim_way)

\* Cache::new panics: a division by zero in num_sets, or the assertion num_sets > 0
Cache_new_panics(config) ==
    \/ config.line_size = 0
    \/ config.associativity = 0
    \/ num_sets(config) = 0

\* Cache::new, when it does not panic
Cache_new(config) ==
    LET n == num_sets(config)
        line_bits == trailing_zeros(config.line_size)
        set_bits == trailing_zeros(n)
    IN  [config |-> config,
         sets |-> [s \in 0..(n - 1) |-> CacheSet_new(config.associativity)],
         set_mask |-> Pow2(set_bits) - 1,
         line_bits |-> line_bits]

\* Cache::address_to_set_and_tag
address_to_set_and_tag(c, address) ==
    LET line_addr == Shr(address, c.line_bits)
    IN  [set_index |-> BitAnd(line_addr, c.set_mask),
         tag |-> Shr(line_addr, count_ones(c.set_mask))]

\* an access that on a miss allocates the line in set 0 instead of its own set
Cache_access_AllocateInSetZero(c, address) ==
    LET st == address_to_set_and_tag(c, address)
        r == CacheSet_access(c.sets[st.set_index], st.tag)
    IN  IF r.result = "Miss"
        THEN [cache |-> [c EXCEPT !.sets[0] = allocate(@, st.tag)], result |-> r.result]
        ELSE [cache |-> [c EXCEPT !.sets[st.set_index] = r.set], result |-> r.result]

\* Cache::access
Cache_access(c, address) ==
    LET st == address_to_set_and_tag(c, address)
        r == CacheSet_access(c.sets[st.set_index], st.tag)
        set == IF r.result = "Miss" THEN allocate(r.set, st.tag) ELSE r.set
    IN  [cache |-> [c EXCEPT !.sets[st.set_index] = set], result |-> r.result]

\* Cache::hit_latency_cycles
hit_latency_cycles(c) == c.config.hit_latency_cycles

\* the value of the cache variable before construction
NoCache ==
    [config |-> [size_bytes |-> 0, line_size |-> 0, associativity |-> 0,
                 hit_latency_cycles |-> 0],
     sets |-> <<>>, set_mask |-> 0, line_bits |-> 0]

\* tags of the valid lines of a set
Resident(set) == {set.lines[w].tag : w \in {v \in DOMAIN set.lines : set.lines[v].valid}}

----------------------------------------------------------------------------
(* The stand-alone cache: construction, then accesses. *)

NoAccess ==
    [address |-> 0, result |-> "None", set_index |-> 0, tag |-> 0,
     full |-> FALSE, hit_before |-> FALSE, evicted |-> {}]

CacheIdle ==
    /\ cstatus = "unbuilt"
    /\ cache = NoCache
    /\ clock = 0
    /\ lastUse = << >>
    /\ last = NoAccess
    /\ history = << >>

\* Cache::new(config)
CacheNew ==
    /\ cstatus = "unbuilt"
    /\ \E config \in CacheConfigs :
          IF Cache_new_panics(config)
          THEN /\ cstatus' = "panicked"
               /\ cache' = [NoCache EXCEPT !.config = config]
          ELSE /\ cstatus' = "built"
               /\ cache' = Cache_new(config)
    /\ UNCHANGED <<clock, lastUse, last, history>>
    /\ UNCHANGED <<simVars, schedVars, metricsVars>>

\* cache.access(address); the ghosts record what the access did
CacheAccess ==
    /\ cstatus = "built"
    /\ clock < MaxAccesses
    /\ \E address \in Addresses :
          LET st == address_to_set_and_tag(cache, address)
              r == Cache_access(cache, address)
              before == cache.sets[st.set_index]
              after == r.cache.sets[st.set_index]
              key == <<st.set_index, st.tag>>
          IN  /\ cache' = r.cache
              /\ clock' = clock + 1
              /\ lastUse' = [k \in DOMAIN lastUse \cup {key} |->
                                IF k # key THEN lastUse[k]
                                ELSE [filled |-> IF r.result = "Miss" THEN clock + 1
                                                 ELSE lastUse[k].filled,
                                      used |-> clock + 1]]
              /\ history' = Append(history, [address |-> address, result |-> r.result])
              /\ last' = [address |-> address,
                          result |-> r.result,
                          set_index |-> st.set_index,
                          tag |-> st.tag,
                          full |-> \A w \in DOMAIN before.lines : before.lines[w].valid,
                          hit_before |-> last.result = "Hit" \/ last.hit_before,
                          evicted |-> Resident(before) \ Resident(after)]
    /\ UNCHANGED cstatus
    /\ UNCHANGED <<simVars, schedVars, metricsVars>>

----------------------------------------------------------------------------
(* core.rs *)

\* Instruction::new_compute
new_compute(issue_cycle) ==
    [kind |-> "Compute", address |-> 0, issue_cycle |-> issue_cycle,
     stage_cycles_left |-> 1, stage |-> "Fetch", stalled |-> FALSE,
     stall_cycles_left |-> 0]

\* Instruction::new_memory
new_memory(kind, address, issue_cycle) ==
    [kind |-> kind, address |-> address, issue_cycle |-> issue_cycle,
     stage_cycles_left |-> 1, stage |-> "Fetch", stalled |-> FALSE,
     stall_cycles_left |-> 0]

\* an is_memory_op that takes only the loads for memory operations
is_memory_op_LoadOnly(instr) == instr.kind = "Load"

\* Instruction::is_memory_op
is_memory_op(instr) == instr.kind \in {"Load", "Store"}

----------------------------------------------------------------------------
(* memory.rs, scheduler.rs *)

\* Memory::access_latency_cycles
access_latency_cycles(mem) == mem.access_latency_cycles

\* a thread_to_core that is off by one core
thread_to_core_Shifted(n_cores, thread_id) == (thread_id + 1) % n_cores

\* Scheduler::thread_to_core; the remainder panics when num_cores = 0
thread_to_core(n_cores, thread_id) == thread_id % n_cores

\* Option<ThreadId>
None == [some |-> FALSE, value |-> 0]
Some(t) == [some |-> TRUE, value |-> t]

\* usize::max
Max(a, b) == IF a >= b THEN a ELSE b

\* Scheduler::core_to_thread
core_to_thread(n_cores, n_threads, core_id) ==
    IF core_id < n_cores THEN Some(core_id % Max(n_threads, 1)) ELSE None

----------------------------------------------------------------------------
(* metrics.rs *)

\* PerCoreMetrics::default
DefaultPerCore ==
    [memory_accesses |-> 0, cache_hits |-> 0, cache_misses |-> 0,
     memory_stall_cycles |-> 0]

\* Metrics::new
Metrics_new ==
    [total_cycles |-> 0, total_memory_accesses |-> 0, cache_hits |-> 0,
     cache_misses |-> 0, memory_stall_cycles |-> 0, per_core |-> << >>]

\* HashMap::entry(core_id).or_default()
Entry(per_core, core_id) ==
    IF core_id \in DOMAIN per_core THEN per_core
    ELSE [k \in DOMAIN per_core \cup {core_id} |->
             IF k = core_id THEN DefaultPerCore ELSE per_core[k]]

\* a record_access that counts only the misses as accesses
record_access_MissOnly(m, core_id, hit, stall_cycles) ==
    LET pc0 == Entry(m.per_core, core_id)
        per == pc0[core_id]
    IN  [m EXCEPT
            !.total_memory_accesses = IF hit THEN @ ELSE @ + 1,
            !.cache_hits = IF hit THEN @ + 1 ELSE @,
            !.cache_misses = IF hit THEN @ ELSE @ + 1,
            !.memory_stall_cycles = @ + stall_cycles,
            !.per_core = [pc0 EXCEPT ![core_id] =
                [memory_accesses |-> per.memory_accesses + 1,
                 cache_hits |-> IF hit THEN per.cache_hits + 1 ELSE per.cache_hits,
                 cache_misses |-> IF hit THEN per.cache_misses ELSE per.cache_misses + 1,
                 memory_stall_cycles |-> per.memory_stall_cycles + stall_cycles]]]

\* a record_access that books every access on the entry of core 0
record_access_CoreZero(m, core_id, hit, stall_cycles) ==
    LET pc0 == Entry(m.per_core, 0)
        per == pc0[0]
    IN  [m EXCEPT
            !.total_memory_accesses = @ + 1,
            !.cache_hits = IF hit THEN @ + 1 ELSE @,
            !.cache_misses = IF hit THEN @ ELSE @ + 1,
            !.memory_stall_cycles = @ + stall_cycles,
            !.per_core = [pc0 EXCEPT ![0] =
                [memory_accesses |-> per.memory_accesses + 1,
                 cache_hits |-> IF hit THEN per.cache_hits + 1 ELSE per.cache_hits,
                 cache_misses |-> IF hit THEN per.cache_misses ELSE per.cache_misses + 1,
                 memory_stall_cycles |-> per.memory_stall_cycles + stall_cycles]]]

\* Metrics::record_access
record_access(m, core_id, hit, stall_cycles) ==
    LET pc0 == Entry(m.per_core, core_id)
        per == pc0[core_id]
    IN  [m EXCEPT
            !.total_memory_accesses = @ + 1,
            !.cache_hits = IF hit THEN @ + 1 ELSE @,
            !.cache_misses = IF hit THEN @ ELSE @ + 1,
            !.memory_stall_cycles = @ + stall_cycles,
            !.per_core = [pc0 EXCEPT ![core_id] =
                [memory_accesses |-> per.memory_accesses + 1,
                 cache_hits |-> IF hit THEN per.cache_hits + 1 ELSE per.cache_hits,
                 cache_misses |-> IF hit THEN per.cache_misses ELSE per.cache_misses + 1,
                 memory_stall_cycles |-> per.memory_stall_cycles + stall_cycles]]]

----------------------------------------------------------------------------
(* f64 arithmetic of metrics.rs: a non-negative finite double is zero or     *)
(* 1.b2...b53 * 2^exp, held as its exponent and its 53 significand bits, most *)
(* significant first. Results are rounded to nearest, ties to even.          *)

\* significand bits of an f64
Precision == 53

Zeros(n) == [i \in 1..n |-> 0]

\* the binary digits of a positive integer, most significant first
RECURSIVE NatBits(_)
NatBits(n) == IF n < 2 THEN <<n>> ELSE Append(NatBits(n \div 2), n % 2)

\* the w low binary digits of an integer, most significant first
Bits(v, w) == [i \in 1..w |-> (v \div Pow2(w - i)) % 2]

\* the integer a bit sequence spells, up to position i
RECURSIVE BitsValue(_, _)
BitsValue(bits, i) == IF i = 0 THEN 0 ELSE 2 * BitsValue(bits, i - 1) + bits[i]

\* a bit sequence without its leading zeros
RECURSIVE StripLeading(_)
StripLeading(bits) ==
    IF bits = << >> \/ bits[1] = 1 THEN bits ELSE StripLeading(Tail(bits))

\* a bit sequence plus one in its last place; one bit longer when the carry runs
\* out of the top
Increment(bits) ==
    IF \A i \in 1..Len(bits) : bits[i] = 1 THEN <<1>> \o Zeros(Len(bits))
    ELSE [i \in 1..Len(bits) |->
             IF \A j \in (i + 1)..Len(bits) : bits[j] = 1 THEN 1 - bits[i] ELSE bits[i]]

F64Zero == [zero |-> TRUE, exp |-> 0, sig |-> Zeros(Precision)]

\* the value bits * 2^(exp - Len(bits) + 1), bits[1] = 1, after a round toward zero
RoundF64_Truncate(exp, bits, sticky) ==
    IF Len(bits) <= Precision
    THEN [zero |-> FALSE, exp |-> exp, sig |-> bits \o Zeros(Precision - Len(bits))]
    ELSE [zero |-> FALSE, exp |-> exp, sig |-> SubSeq(bits, 1, Precision)]

\* the f64 nearest to the value bits * 2^(exp - Len(bits) + 1), bits[1] = 1, plus a
\* non-zero rest below the last bit when sticky; ties go to the even significand
RoundF64(exp, bits, sticky) ==
    IF Len(bits) <= Precision
    THEN [zero |-> FALSE, exp |-> exp, sig |-> bits \o Zeros(Precision - Len(bits))]
    ELSE LET head == SubSeq(bits, 1, Precision)
             rest == sticky \/ \E i \in (Precision + 2)..Len(bits) : bits[i] = 1
             up == bits[Precision + 1] = 1 /\ (rest \/ head[Precision] = 1)
             inc == Increment(head)
         IN  IF ~up THEN [zero |-> FALSE, exp |-> exp, sig |-> head]
             ELSE IF Len(inc) > Precision
             THEN [zero |-> FALSE, exp |-> exp + 1, sig |-> SubSeq(inc, 1, Precision)]
             ELSE [zero |-> FALSE, exp |-> exp, sig |-> inc]

\* n as f64, for n < 2^53 (exact)
as_f64(n) ==
    IF n = 0 THEN F64Zero ELSE RoundF64(Len(NatBits(n)) - 1, NatBits(n), FALSE)

\* quotient bits are produced 14 at a time, four times: 56 bits after the first
DivDigits == 14
DivRounds == 4

\* the next DivDigits * k quotient bits of r / den, for r < den < 2^17
RECURSIVE DivBits(_, _, _)
DivBits(r, den, k) ==
    IF k = 0 THEN << >>
    ELSE Bits((r * Pow2(DivDigits)) \div den, DivDigits)
            \o DivBits((r * Pow2(DivDigits)) % den, den, k - 1)

\* the remainder left after those quotient bits
RECURSIVE DivRest(_, _, _)
DivRest(r, den, k) ==
    IF k = 0 THEN r ELSE DivRest((r * Pow2(DivDigits)) % den, den, k - 1)

\* the least k with a * 2^k >= n
RECURSIVE ShiftUp(_, _)
ShiftUp(a, n) == IF a >= n THEN 0 ELSE 1 + ShiftUp(2 * a, n)

\* the greatest k with n * 2^k <= a, for a >= n
RECURSIVE ShiftDown(_, _)
ShiftDown(a, n) == IF 2 * n > a THEN 0 ELSE 1 + ShiftDown(a, 2 * n)

\* a as f64 / n as f64 for integers 0 <= a and 0 < n below 2^16: the quotient of
\* num / den, den <= num < 2 * den, starts with the bit 1
div_f64(a, n) ==
    IF a = 0 THEN F64Zero
    ELSE LET up == ShiftUp(a, n)
             down == IF a >= n THEN ShiftDown(a, n) ELSE 0
             num == a * Pow2(up)
             den == n * Pow2(down)
         IN  RoundF64(down - up, <<1>> \o DivBits(num - den, den, DivRounds),
                      DivRest(num - den, den, DivRounds) # 0)

\* the significand is multiplied in three limbs of at most 18 bits
LimbBits == 18

\* a 53-bit significand times the integer k < 2^12, as bits
MulBits(sig, k) ==
    LET lo == BitsValue(SubSeq(sig, Precision - LimbBits + 1, Precision), LimbBits) * k
        mid == BitsValue(SubSeq(sig, Precision - 2 * LimbBits + 1, Precision - LimbBits),
                         LimbBits) * k + lo \div Pow2(LimbBits)
        hi == BitsValue(SubSeq(sig, 1, Precision - 2 * LimbBits),
                        Precision - 2 * LimbBits) * k + mid \div Pow2(LimbBits)
    IN  NatBits(hi) \o Bits(mid % Pow2(LimbBits), LimbBits)
                   \o Bits(lo % Pow2(LimbBits), LimbBits)

\* x * (k as f64) for an integer 0 < k < 2^12
mul_f64(x, k) ==
    IF x.zero THEN F64Zero
    ELSE RoundF64(x.exp + Len(MulBits(x.sig, k)) - Precision, MulBits(x.sig, k), FALSE)

\* adding xs and ys carries into position i
Carry(xs, ys, i) ==
    \E j \in (i + 1)..Len(xs) :
        /\ xs[j] + ys[j] = 2
        /\ \A k \in (i + 1)..(j - 1) : xs[k] + ys[k] = 1

\* the sum of two bit sequences of one length
AddBits(xs, ys) ==
    (IF Carry(xs, ys, 0) THEN <<1>> ELSE << >>)
        \o [i \in 1..Len(xs) |->
               (xs[i] + ys[i] + (IF Carry(xs, ys, i) THEN 1 ELSE 0)) % 2]

\* the two significands written over the same bit positions, added
AlignedSum(x, y, hi, lo) ==
    AddBits(Zeros(hi - x.exp) \o x.sig \o Zeros(x.exp - Precision + 1 - lo),
            Zeros(hi - y.exp) \o y.sig \o Zeros(y.exp - Precision + 1 - lo))

\* x + y
add_f64(x, y) ==
    IF x.zero THEN y
    ELSE IF y.zero THEN x
    ELSE LET hi == Max(x.exp, y.exp)
             lo == (IF x.exp <= y.exp THEN x.exp ELSE y.exp) - Precision + 1
             sum == AlignedSum(x, y, hi, lo)
         IN  RoundF64(hi + Len(sum) - (hi - lo + 1), sum, FALSE)

\* floor(x * 2^k) for a non-negative k and an x below 2^(30 - k)
Scaled(x, k) ==
    IF x.zero \/ x.exp + k < 0 THEN 0
    ELSE IF x.exp + k + 1 <= Precision THEN BitsValue(x.sig, x.exp + k + 1)
    ELSE BitsValue(x.sig \o Zeros(x.exp + k + 1 - Precision), x.exp + k + 1)

----------------------------------------------------------------------------
(* metrics.rs: the derived queries *)

\* Metrics::hit_rate
hit_rate(m) ==
    IF m.cache_hits + m.cache_misses = 0 THEN as_f64(1)
    ELSE div_f64(m.cache_hits, m.cache_hits + m.cache_misses)

\* Metrics::miss_rate
miss_rate(m) ==
    IF m.cache_hits + m.cache_misses = 0 THEN F64Zero
    ELSE div_f64(m.cache_misses, m.cache_hits + m.cache_misses)

\* a slowdown taken relative to the actual cycle count
slowdown_vs_ideal_OverActual(m, ideal_cycles) ==
    IF ideal_cycles = 0 THEN F64Zero
    ELSE IF m.total_cycles <= ideal_cycles THEN F64Zero
    ELSE div_f64(m.total_cycles - ideal_cycles, m.total_cycles)

\* Metrics::slowdown_vs_ideal
slowdown_vs_ideal(m, ideal_cycles) ==
    IF ideal_cycles = 0 THEN F64Zero
    ELSE IF m.total_cycles <= ideal_cycles THEN F64Zero
    ELSE div_f64(m.total_cycles - ideal_cycles, ideal_cycles)

\* Metrics::slowdown_percent
slowdown_percent(m, ideal_cycles) == mul_f64(slowdown_vs_ideal(m, ideal_cycles), 100)

----------------------------------------------------------------------------
(* simulator.rs: the substages of Simulator::step *)

\* StageCycles::default
fetch_cycles == 1
execute_cycles == 1
commit_cycles == 1

\* the current cycle after one more step
next_cycle(cycle) == cycle + 1

\* a commit substage that also flushes the instructions stalled on a miss
CommitKeeps_FlushStalled(instr) ==
    ~(instr.stage = "Commit" /\ instr.stage_cycles_left = 0) /\ ~instr.stalled

\* substage 1, one instruction: it stays unless it is in Commit with no cycles left
CommitKeeps(instr) == ~(instr.stage = "Commit" /\ instr.stage_cycles_left = 0)

CommitRetires(instr) == instr.stage = "Commit" /\ instr.stage_cycles_left = 0

\* substage 1 on one pipeline: the instructions that stay
commit_substage(pipeline) ==
    LET kept == SelectSeq(pipeline, CommitKeeps)
    IN  [i \in 1..Len(kept) |->
            IF kept[i].stage = "Commit"
            THEN [kept[i] EXCEPT !.stage_cycles_left = @ - 1]
            ELSE kept[i]]

\* substage 1 on one pipeline: the ids of the instructions removed, in removal order
commit_removed(pipeline) ==
    LET gone == SelectSeq(pipeline, CommitRetires)
    IN  [i \in 1..Len(gone) |-> gone[i].id]

\* substage 2, one instruction
memory_instr(instr, hit_latency) ==
    IF instr.stage # "Memory" THEN instr
    ELSE IF instr.stalled
    THEN LET left == IF instr.stall_cycles_left > 0
                     THEN instr.stall_cycles_left - 1
                     ELSE instr.stall_cycles_left
         IN  IF left = 0
             THEN [instr EXCEPT !.stall_cycles_left = left, !.stalled = FALSE,
                                !.stage_cycles_left = hit_latency]
             ELSE [instr EXCEPT !.stall_cycles_left = left]
    ELSE IF instr.stage_cycles_left > 0
    THEN [instr EXCEPT !.stage_cycles_left = @ - 1]
    ELSE [instr EXCEPT !.stage = "Commit", !.stage_cycles_left = commit_cycles]

\* substage 2: the stalled instructions of a pipeline whose countdown is running
StallTicks(pipeline) ==
    Cardinality({i \in 1..Len(pipeline) :
                    /\ pipeline[i].stage = "Memory"
                    /\ pipeline[i].stalled
                    /\ pipeline[i].stall_cycles_left > 0})

\* stall counters that are overwritten by the ticks of this scan
memory_metrics_Assign(m, core_id, ticks) ==
    LET pc0 == Entry(m.per_core, core_id)
    IN  [m EXCEPT !.memory_stall_cycles = ticks,
                  !.per_core = [pc0 EXCEPT ![core_id].memory_stall_cycles = ticks]]

\* substage 2: the stall counters after core_id's pipeline was scanned
memory_metrics(m, core_id, ticks) ==
    IF ticks = 0 THEN m
    ELSE LET pc0 == Entry(m.per_core, core_id)
         IN  [m EXCEPT !.memory_stall_cycles = @ + ticks,
                       !.per_core = [pc0 EXCEPT ![core_id].memory_stall_cycles = @ + ticks]]

\* substage 2 over the cores from c on
RECURSIVE memory_substage(_, _, _)
memory_substage(cs, m, c) ==
    IF c \notin DOMAIN cs THEN [cores |-> cs, metrics |-> m]
    ELSE LET p == cs[c].pipeline
             h == hit_latency_cycles(cs[c].cache)
             q == [i \in 1..Len(p) |-> memory_instr(p[i], h)]
         IN  memory_substage([cs EXCEPT ![c].pipeline = q],
                             memory_metrics(m, c, StallTicks(p)), c + 1)

\* a Load or Store that goes straight to Commit when its access hits
execute_memory_op_HitSkipsMemory(instr, r, m, core_id, mem) ==
    LET hit == r.result = "Hit"
        stall == IF hit THEN 0 ELSE access_latency_cycles(mem)
    IN  [instr |-> IF hit
                   THEN [instr EXCEPT !.stage = "Commit",
                                      !.stage_cycles_left = commit_cycles]
                   ELSE [instr EXCEPT !.stage = "Memory", !.stalled = TRUE,
                                      !.stall_cycles_left = access_latency_cycles(mem)],
         cache |-> r.cache,
         metrics |-> record_access(m, core_id, hit, stall)]

\* substage 3, a Load or Store leaving Execute: r is the outcome of its cache access
execute_memory_op(instr, r, m, core_id, mem) ==
    LET hit == r.result = "Hit"
        stall == IF hit THEN 0 ELSE access_latency_cycles(mem)
    IN  [instr |-> IF hit
                   THEN [instr EXCEPT !.stage = "Memory",
                                      !.stage_cycles_left = hit_latency_cycles(r.cache)]
                   ELSE [instr EXCEPT !.stage = "Memory", !.stalled = TRUE,
                                      !.stall_cycles_left = access_latency_cycles(mem)],
         cache |-> r.cache,
         metrics |-> record_access(m, core_id, hit, stall)]

\* substage 3, one instruction: the cache and the metrics are threaded through
execute_instr(instr, c, m, core_id, mem) ==
    IF instr.stage # "Execute" THEN [instr |-> instr, cache |-> c, metrics |-> m]
    ELSE IF instr.stage_cycles_left > 0
    THEN [instr |-> [instr EXCEPT !.stage_cycles_left = @ - 1], cache |-> c, metrics |-> m]
    ELSE IF is_memory_op(instr)
    THEN execute_memory_op(instr, Cache_access(c, instr.address), m, core_id, mem)
    ELSE [instr |-> [instr EXCEPT !.stage = "Commit", !.stage_cycles_left = commit_cycles],
          cache |-> c, metrics |-> m]

RECURSIVE execute_loop(_, _, _, _, _, _)

\* substage 3 on one pipeline: r is what the instruction at position i became
execute_rest(p, i, r, core_id, mem) ==
    execute_loop([p EXCEPT ![i] = r.instr], i + 1, r.cache, r.metrics, core_id, mem)

\* substage 3 on one pipeline, from position i on
execute_loop(p, i, c, m, core_id, mem) ==
    IF i > Len(p) THEN [pipeline |-> p, cache |-> c, metrics |-> m]
    ELSE execute_rest(p, i, execute_instr(p[i], c, m, core_id, mem), core_id, mem)

RECURSIVE execute_substage(_, _, _, _)

\* an Execute substage that accesses a copy of the cache of the core and
\* throws the copy away
execute_next_CacheCopy(cs, r, c, mem) ==
    execute_substage([cs EXCEPT ![c].pipeline = r.pipeline], r.metrics, c + 1, mem)

\* substage 3 over the cores: r is what the pipeline and the cache of core c became
execute_next(cs, r, c, mem) ==
    execute_substage([cs EXCEPT ![c].pipeline = r.pipeline, ![c].cache = r.cache],
                     r.metrics, c + 1, mem)

\* substage 3 over the cores from c on
execute_substage(cs, m, c, mem) ==
    IF c \notin DOMAIN cs THEN [cores |-> cs, metrics |-> m]
    ELSE execute_next(cs, execute_loop(cs[c].pipeline, 1, cs[c].cache, m, c, mem), c, mem)

\* substage 4, one instruction
fetch_instr(instr) ==
    IF instr.stage # "Fetch" THEN instr
    ELSE IF instr.stage_cycles_left > 0
    THEN [instr EXCEPT !.stage_cycles_left = @ - 1]
    ELSE [instr EXCEPT !.stage = "Execute", !.stage_cycles_left = execute_cycles]

\* an admission loop that admits one instruction too many
RECURSIVE admission_OffByOne(_)
admission_OffByOne(core) ==
    IF Len(core.pipeline) <= core.pipeline_width /\ core.workload # << >>
    THEN LET instr == [Head(core.workload) EXCEPT !.stage = "Fetch",
                                                  !.stage_cycles_left = fetch_cycles]
         IN  admission_OffByOne([core EXCEPT !.workload = Tail(@),
                                             !.pipeline = Append(@, instr)])
    ELSE core

\* an admission loop that takes the youngest pending instruction first
RECURSIVE admission_FromBack(_)
admission_FromBack(core) ==
    IF Len(core.pipeline) < core.pipeline_width /\ core.workload # << >>
    THEN LET instr == [core.workload[Len(core.workload)]
                          EXCEPT !.stage = "Fetch", !.stage_cycles_left = fetch_cycles]
         IN  admission_FromBack([core EXCEPT
                 !.workload = SubSeq(@, 1, Len(@) - 1),
                 !.pipeline = Append(@, instr)])
    ELSE core

\* substage 5 on one core
RECURSIVE admission(_)
admission(core) ==
    IF Len(core.pipeline) < core.pipeline_width /\ core.workload # << >>
    THEN LET instr == [Head(core.workload) EXCEPT !.stage = "Fetch",
                                                  !.stage_cycles_left = fetch_cycles]
         IN  admission([core EXCEPT !.workload = Tail(@),
                                    !.pipeline = Append(@, instr)])
    ELSE core

\* a step that leaves the published cycle count alone
publish_Stale(m, cycle) == m

\* the end of step: metrics.total_cycles = current_cycle
publish(m, cycle) == [m EXCEPT !.total_cycles = cycle]

\* a commit substage with one commit port shared by the cores: a core retires
\* nothing in a step in which a core of lower id retires an instruction
commit_cores_SharedPort(cs) ==
    [c \in DOMAIN cs |->
        IF \E d \in DOMAIN cs : d < c /\ commit_removed(cs[d].pipeline) # << >>
        THEN cs[c]
        ELSE [cs[c] EXCEPT !.pipeline = commit_substage(@)]]

\* substage 1 over the cores
commit_cores(cs) ==
    [c \in DOMAIN cs |-> [cs[c] EXCEPT !.pipeline = commit_substage(@)]]

\* substages 4 and 5 on one core
fetch_and_admit(core) ==
    admission([core EXCEPT !.pipeline = [i \in 1..Len(@) |-> fetch_instr(@[i])]])

\* substage 3 after substage 2 left s2
step_execute(s2, mem) == execute_substage(s2.cores, s2.metrics, 0, mem)

\* substages 4 and 5 and the published clock after substage 3 left s3
step_finish(s3, cycle) ==
    [cores |-> [c \in DOMAIN s3.cores |-> fetch_and_admit(s3.cores[c])],
     metrics |-> publish(s3.metrics, next_cycle(cycle)),
     current_cycle |-> next_cycle(cycle)]

\* a step whose Execute substage runs before its Memory substage
step_ExecuteFirst(cs, m, cycle, mem) ==
    LET s3 == execute_substage(commit_cores(cs), m, 0, mem)
    IN  step_finish(memory_substage(s3.cores, s3.metrics, 0), cycle)

\* Simulator::step on the cores and the metrics
step(cs, m, cycle, mem) ==
    step_finish(step_execute(memory_substage(commit_cores(cs), m, 0), mem), cycle)

\* the loop condition of run_to_completion
busy(cs) == \E c \in DOMAIN cs : cs[c].workload # << >> \/ cs[c].pipeline # << >>

----------------------------------------------------------------------------
(* simulator.rs: construction and loading *)

SimCacheConfigs ==
    [size_bytes : SimSizes, line_size : SimLineSizes, associativity : SimAssocs,
     hit_latency_cycles : HitLatencies]

\* the CoreState Simulator::new builds for each core
CoreState_new(cache_config, pipeline_width) ==
    [cache |-> Cache_new(cache_config), pipeline |-> << >>, workload |-> << >>,
     pipeline_width |-> pipeline_width]

\* one instruction of a stream, as the workload generator builds it;
\* id is a ghost: the thread and the position in its stream
Instr(op, thread_id, k) ==
    LET i == IF op[1] = "Compute" THEN new_compute(k - 1)
             ELSE new_memory(op[1], op[2], k - 1)
    IN  [kind |-> i.kind, address |-> i.address, issue_cycle |-> i.issue_cycle,
         stage_cycles_left |-> i.stage_cycles_left, stage |-> i.stage,
         stalled |-> i.stalled, stall_cycles_left |-> i.stall_cycles_left,
         id |-> <<thread_id, k>>]

Ops == {<<"Compute", 0>>} \cup ({"Load", "Store"} \X SimAddresses)

\* the instructions of all threads, in thread order
FlatStreams == UNION {[1..k -> Ops] : k \in 0..MaxInstrs}

\* which thread each instruction belongs to: threads own consecutive blocks
Owners(k, nt) ==
    {g \in [1..k -> 0..(nt - 1)] : \A i \in 1..(k - 1) : g[i] <= g[i + 1]}

\* thread_workloads[thread_id]: one stream per thread
ThreadWorkloads(f, g, nt) ==
    [t \in 0..(nt - 1) |->
        LET mine == {i \in 1..Len(f) : g[i] = t}
        IN  [k \in 1..Cardinality(mine) |-> Instr(f[Min(mine) + k - 1], t, k)]]

\* a loader that puts each stream in front of what the queue already holds
RECURSIVE load_workload_Prepend(_, _, _, _)
load_workload_Prepend(cs, tw, t, n_cores) ==
    IF t \notin DOMAIN tw THEN cs
    ELSE load_workload_Prepend(
             [cs EXCEPT ![thread_to_core(n_cores, t)].workload = tw[t] \o @],
             tw, t + 1, n_cores)

\* Simulator::load_workload over the threads from t on
RECURSIVE load_workload(_, _, _, _)
load_workload(cs, tw, t, n_cores) ==
    IF t \notin DOMAIN tw THEN cs
    ELSE load_workload([cs EXCEPT ![thread_to_core(n_cores, t)].workload = @ \o tw[t]],
                       tw, t + 1, n_cores)

\* the streams of the threads routed to core c, in thread order
RoutedStreams(tw, c, n_cores) ==
    LET n == Cardinality({t \in DOMAIN tw : t % n_cores = c})
    IN  [j \in 0..(n - 1) |-> tw[c + j * n_cores]]

\* an engine of the given configuration with one core, loaded with the streams
\* routed to core c and nothing else
SoloLoaded(cache_config, pipeline_width, tw, c, n_cores) ==
    [cores |-> load_workload([z \in {0} |-> CoreState_new(cache_config, pipeline_width)],
                             RoutedStreams(tw, c, n_cores), 0, 1),
     metrics |-> Metrics_new,
     current_cycle |-> 0]

\* the value of the ghost given before construction
NoArguments ==
    [cache_config |-> NoCache.config, pipeline_width |-> 0, thread_workloads |-> << >>]

\* the ids of the instructions in a pipeline or pending queue
IdsOf(q) == {q[i].id : i \in 1..Len(q)}

\* the instruction with the given id in a pipeline
InstrOf(p, id) == p[CHOOSE i \in 1..Len(p) : p[i].id = id]

\* the value of the ghost log before loading: per core the stalled steps and
\* the cache accesses made, per instruction the step that admitted it and
\* the step that retired it
NoLog == [stall_steps |-> << >>, outcomes |-> << >>, admitted |-> << >>,
          retired_at |-> << >>]

\* the ghost log of an engine that has just been loaded
EmptyLog(cs) ==
    [stall_steps |-> [c \in DOMAIN cs |-> 0],
     outcomes |-> [c \in DOMAIN cs |-> << >>],
     admitted |-> << >>,
     retired_at |-> << >>]

\* the Execute substage accesses the cache for this instruction
Accesses(instr) ==
    instr.stage = "Execute" /\ instr.stage_cycles_left = 0 /\ is_memory_op(instr)

\* the cache accesses of one step on one pipeline, in the order of the scan,
\* each with the outcome the instruction carries into Memory
AccessesOf(before, after) ==
    LET acc == SelectSeq(before, Accesses)
    IN  [i \in 1..Len(acc) |->
            [id |-> acc[i].id, address |-> acc[i].address,
             result |-> IF InstrOf(after, acc[i].id).stalled THEN "Miss" ELSE "Hit"]]

\* the ids in the pipelines of the cores
InFlight(cs) == UNION {IdsOf(cs[c].pipeline) : c \in DOMAIN cs}

\* the ghost log after step n, which took the cores from before to after
LogStep(l, before, after, n) ==
    [stall_steps |-> [c \in DOMAIN l.stall_steps |->
                         l.stall_steps[c] + StallTicks(before[c].pipeline)],
     outcomes |-> [c \in DOMAIN l.outcomes |->
                      l.outcomes[c] \o AccessesOf(before[c].pipeline, after[c].pipeline)],
     admitted |-> [id \in DOMAIN l.admitted \cup InFlight(after) |->
                      IF id \in DOMAIN l.admitted THEN l.admitted[id] ELSE n],
     retired_at |-> [id \in DOMAIN l.retired_at \cup (InFlight(before) \ InFlight(after)) |->
                        IF id \in DOMAIN l.retired_at THEN l.retired_at[id] ELSE n]]

SimIdle ==
    /\ pc = "unbuilt"
    /\ num_cores = 0
    /\ num_threads = 0
    /\ cores = << >>
    /\ memory = [access_latency_cycles |-> 0]
    /\ metrics = Metrics_new
    /\ current_cycle = 0
    /\ nsteps = 0
    /\ retired = << >>
    /\ given = NoArguments
    /\ solo = << >>
    /\ log = NoLog

\* Simulator::new(num_cores, num_threads, cache_config, memory_config, pipeline_width);
\* it panics when a cache is built from a configuration Cache::new rejects
New ==
    /\ pc = "unbuilt"
    /\ \E nc \in CoreCounts, nt \in ThreadCounts, cc \in SimCacheConfigs,
          lat \in MemLatencies, w \in Widths :
          IF nc > 0 /\ Cache_new_panics(cc)
          THEN /\ pc' = "new_panicked"
               /\ UNCHANGED <<num_cores, num_threads, cores, memory, retired, given>>
          ELSE /\ pc' = "built"
               /\ num_cores' = nc
               /\ num_threads' = nt
               /\ cores' = [c \in 0..(nc - 1) |-> CoreState_new(cc, w)]
               /\ memory' = [access_latency_cycles |-> lat]
               /\ retired' = [c \in 0..(nc - 1) |-> << >>]
               /\ given' = [given EXCEPT !.cache_config = cc, !.pipeline_width = w]
    /\ metrics' = Metrics_new
    /\ current_cycle' = 0
    /\ UNCHANGED <<nsteps, solo, log>>
    /\ UNCHANGED <<cacheVars, schedVars, metricsVars>>

\* sim.load_workload(thread_workloads), one stream per thread of the engine;
\* thread_to_core panics on the first thread when the engine has no core
LoadWorkload ==
    /\ pc = "built"
    /\ \E f \in FlatStreams :
          \E g \in Owners(Len(f), num_threads) :
             LET tw == ThreadWorkloads(f, g, num_threads)
             IN  IF num_cores = 0 /\ num_threads > 0
                 THEN /\ pc' = "load_panicked"
                      /\ UNCHANGED <<cores, given, solo, log>>
                 ELSE /\ pc' = "loaded"
                      /\ cores' = load_workload(cores, tw, 0, num_cores)
                      /\ given' = [given EXCEPT !.thread_workloads = tw]
                      /\ solo' = [c \in DOMAIN cores |->
                                     SoloLoaded(given.cache_config, given.pipeline_width,
                                                tw, c, num_cores)]
                      /\ log' = EmptyLog(cores)
    /\ UNCHANGED <<num_cores, num_threads, memory, metrics, current_cycle, nsteps, retired>>
    /\ UNCHANGED <<cacheVars, schedVars, metricsVars>>

\* the effect of one call of sim.step()
DoStep ==
    LET r == step(cores, metrics, current_cycle, memory)
    IN  /\ cores' = r.cores
        /\ metrics' = r.metrics
        /\ current_cycle' = r.current_cycle
        /\ nsteps' = nsteps + 1
        /\ retired' = [c \in DOMAIN retired |->
                          retired[c] \o commit_removed(cores[c].pipeline)]
        /\ solo' = [c \in DOMAIN solo |->
                       step(solo[c].cores, solo[c].metrics, solo[c].current_cycle, memory)]
        /\ log' = LogStep(log, cores, r.cores, nsteps + 1)
        /\ UNCHANGED <<num_cores, num_threads, memory, given>>
        /\ UNCHANGED <<cacheVars, schedVars, metricsVars>>

\* the caller calls sim.step() itself
Step ==
    /\ pc = "loaded"
    /\ nsteps < MaxManualSteps
    /\ DoStep
    /\ UNCHANGED pc

\* the caller calls sim.run_to_completion()
RunToCompletion ==
    /\ pc = "loaded"
    /\ pc' = "running"
    /\ UNCHANGED <<num_cores, num_threads, cores, memory, metrics, current_cycle,
                   nsteps, retired, given, solo, log>>
    /\ UNCHANGED <<cacheVars, schedVars, metricsVars>>

\* one iteration of the loop of run_to_completion with busy = true
RunStep ==
    /\ pc = "running"
    /\ busy(cores)
    /\ \/ step(cores, metrics, current_cycle, memory).cores # cores
       \/ current_cycle < MaxSpin
    /\ DoStep
    /\ UNCHANGED pc

\* the iteration of the loop of run_to_completion with busy = false: break
RunReturn ==
    /\ pc = "running"
    /\ ~busy(cores)
    /\ pc' = "returned"
    /\ UNCHANGED <<num_cores, num_threads, cores, memory, metrics, current_cycle,
                   nsteps, retired, given, solo, log>>
    /\ UNCHANGED <<cacheVars, schedVars, metricsVars>>

----------------------------------------------------------------------------
(* The stand-alone scheduler: construction, then calls of the two mappings. *)

NoCall == [op |-> "none", arg |-> 0, core |-> 0, thread |-> None]

SchedIdle ==
    /\ sstatus = "unbuilt"
    /\ sched = [num_cores |-> 0, num_threads |-> 0]
    /\ slast = NoCall
    /\ assigned = << >>
    /\ scalls = 0

\* Scheduler::new(num_cores, num_threads)
SchedNew ==
    /\ sstatus = "unbuilt"
    /\ \E n \in SchedCounts, t \in SchedCounts :
          sched' = [num_cores |-> n, num_threads |-> t]
    /\ sstatus' = "built"
    /\ UNCHANGED <<slast, assigned, scalls>>
    /\ UNCHANGED <<cacheVars, simVars, metricsVars>>

\* scheduler.thread_to_core(ThreadId(t)); the remainder panics when num_cores = 0
ThreadToCore ==
    /\ sstatus = "built"
    /\ scalls < MaxCalls
    /\ \E t \in 0..MaxId :
          IF sched.num_cores = 0
          THEN /\ sstatus' = "panicked"
               /\ UNCHANGED <<slast, assigned>>
          ELSE /\ slast' = [op |-> "thread_to_core", arg |-> t,
                            core |-> thread_to_core(sched.num_cores, t), thread |-> None]
               /\ assigned' = IF t \in DOMAIN assigned THEN assigned
                              ELSE [u \in DOMAIN assigned \cup {t} |->
                                       IF u = t THEN thread_to_core(sched.num_cores, t)
                                       ELSE assigned[u]]
               /\ UNCHANGED sstatus
    /\ scalls' = scalls + 1
    /\ UNCHANGED sched
    /\ UNCHANGED <<cacheVars, simVars, metricsVars>>

\* scheduler.core_to_thread(CoreId(c))
CoreToThread ==
    /\ sstatus = "built"
    /\ scalls < MaxCalls
    /\ \E c \in 0..MaxId :
          slast' = [op |-> "core_to_thread", arg |-> c, core |-> 0,
                    thread |-> core_to_thread(sched.num_cores, sched.num_threads, c)]
    /\ scalls' = scalls + 1
    /\ UNCHANGED <<sstatus, sched, assigned>>
    /\ UNCHANGED <<cacheVars, simVars, metricsVars>>

----------------------------------------------------------------------------
(* The stand-alone metrics: accesses are recorded, the cycle count is stored, *)
(* and the derived queries are asked.                                        *)

NoQuery ==
    [op |-> "none", cache_hits |-> 0, cache_misses |-> 0, total_cycles |-> 0,
     ideal_cycles |-> 0, hit_rate |-> F64Zero, miss_rate |-> F64Zero,
     slowdown_percent |-> F64Zero]

\* Metrics::new()
MetricsIdle ==
    /\ mobj = Metrics_new
    /\ queried = NoQuery

\* m.record_access(core_id, hit, stall_cycles)
MetricsRecord ==
    /\ mobj.total_memory_accesses < MaxRecords
    /\ \E core_id \in {0}, hit \in BOOLEAN :
          mobj' = record_access(mobj, core_id, hit, IF hit THEN 0 ELSE 2)
    /\ UNCHANGED queried
    /\ UNCHANGED <<cacheVars, simVars, schedVars>>

\* m.total_cycles = cycles
MetricsSetCycles ==
    /\ \E cycles \in CycleCounts : mobj' = [mobj EXCEPT !.total_cycles = cycles]
    /\ UNCHANGED queried
    /\ UNCHANGED <<cacheVars, simVars, schedVars>>

\* m.hit_rate() and m.miss_rate()
QueryRates ==
    /\ queried' = [NoQuery EXCEPT !.op = "rates",
                                  !.cache_hits = mobj.cache_hits,
                                  !.cache_misses = mobj.cache_misses,
                                  !.hit_rate = hit_rate(mobj),
                                  !.miss_rate = miss_rate(mobj)]
    /\ UNCHANGED mobj
    /\ UNCHANGED <<cacheVars, simVars, schedVars>>

\* m.slowdown_percent(ideal_cycles)
QuerySlowdown ==
    /\ \E ideal_cycles \in IdealCycles :
          queried' = [NoQuery EXCEPT !.op = "slowdown_percent",
                                    !.total_cycles = mobj.total_cycles,
                                    !.ideal_cycles = ideal_cycles,
                                    !.slowdown_percent =
                                        slowdown_percent(mobj, ideal_cycles)]
    /\ UNCHANGED mobj
    /\ UNCHANGED <<cacheVars, simVars, schedVars>>

----------------------------------------------------------------------------
(* The specifications. *)

Init == CacheIdle /\ SimIdle /\ SchedIdle /\ MetricsIdle

Next == New \/ LoadWorkload \/ Step \/ RunToCompletion \/ RunStep \/ RunReturn

Spec == Init /\ [][Next]_vars

CacheNext == CacheNew \/ CacheAccess

CacheSpec == Init /\ [][CacheNext]_vars

SchedNext == SchedNew \/ ThreadToCore \/ CoreToThread

SchedSpec == Init /\ [][SchedNext]_vars

MetricsNext == MetricsRecord \/ MetricsSetCycles \/ QueryRates \/ QuerySlowdown

MetricsSpec == Init /\ [][MetricsNext]_vars

----------------------------------------------------------------------------
(* The engine: termination, ordering, pipeline bound, counters. *)

\* C1: run_to_completion terminates on every finite workload and every accepted
\* configuration, and on return every pending queue and pipeline is empty.
\* step changes the cores as a function of the cores and the configuration alone,
\* so the loop terminates only if no iteration taken while busy leaves the cores
\* as they were.
C1_RunTerminates ==
    /\ (pc = "running" /\ busy(cores)) =>
          step(cores, metrics, current_cycle, memory).cores # cores
    /\ pc = "returned" =>
          \A c \in DOMAIN cores : cores[c].workload = << >> /\ cores[c].pipeline = << >>

\* the ids of the instructions still pending or in flight on core c
Unretired(c) ==
    {cores[c].pipeline[i].id : i \in 1..Len(cores[c].pipeline)}
        \cup {cores[c].workload[i].id : i \in 1..Len(cores[c].workload)}

\* C2: instructions of one thread retire in issue order: no instruction has left
\* the pipeline while an earlier instruction of its thread is still pending or
\* in flight, and the retire order of a thread follows its stream.
C2_RetireInIssueOrder ==
    \A c \in DOMAIN retired :
        /\ \A p \in 1..Len(retired[c]) : \A u \in Unretired(c) :
              u[1] = retired[c][p][1] => retired[c][p][2] < u[2]
        /\ \A p, q \in 1..Len(retired[c]) :
              (p < q /\ retired[c][p][1] = retired[c][q][1]) =>
                  retired[c][p][2] < retired[c][q][2]

\* C3: in every reachable state each core's pipeline holds at most pipeline_width
\* instructions.
C3_PipelineWithinWidth ==
    \A c \in DOMAIN cores : Len(cores[c].pipeline) <= cores[c].pipeline_width

\* a core whose pipeline is full after a step while instructions are still pending
C3_Witness ==
    /\ nsteps >= 1
    /\ \E c \in DOMAIN cores :
          /\ cores[c].pipeline_width >= 1
          /\ Len(cores[c].pipeline) = cores[c].pipeline_width
          /\ cores[c].workload # << >>

\* C4: after any number of steps total_memory_accesses = cache_hits + cache_misses.
C4_AccessesAreHitsPlusMisses ==
    metrics.total_memory_accesses = metrics.cache_hits + metrics.cache_misses

\* a run stopped mid-way that has recorded both a hit and a miss
C4_Witness ==
    /\ busy(cores)
    /\ metrics.cache_hits >= 1
    /\ metrics.cache_misses >= 1

\* C8: an engine with zero cores is never produced: whenever an engine exists
\* (so that load_workload, step or run_to_completion can be called on it) it has
\* at least one core.
C8_ZeroCoresRejected ==
    pc \in {"built", "loaded", "running", "returned"} => num_cores > 0

\* C10: the clock starts at 0, grows by one per step call, is never reset, and
\* after every step metrics.total_cycles = current_cycle = number of step calls.
C10_ClockCountsSteps ==
    /\ current_cycle = nsteps
    /\ metrics.total_cycles = current_cycle

\* the caller has stepped the engine itself more than once
C10_Witness == pc = "loaded" /\ nsteps >= 2 /\ busy(cores)

----------------------------------------------------------------------------
(* The cache: recency order, replacement, construction, address decomposition. *)

\* C5: after every access the recency ordering of every set is a permutation of
\* the set's way indices 0..associativity-1.
C5_LruOrderIsPermutation ==
    cstatus = "built" =>
        \A s \in DOMAIN cache.sets :
            LET order == cache.sets[s].lru_order
                ways == 0..(cache.config.associativity - 1)
            IN  /\ Len(order) = cache.config.associativity
                /\ {order[p] : p \in 1..Len(order)} = ways
                /\ DOMAIN cache.sets[s].lines = ways

\* a hit in a 2-way set has moved the way that was least recently used to the front
C5_Witness ==
    /\ cstatus = "built"
    /\ cache.config.associativity = 2
    /\ last.result = "Hit"
    /\ cache.sets[last.set_index].lru_order = <<0, 1>>
    /\ clock >= 3

\* C6: a miss in a fully occupied set evicts the resident line whose last access
\* (hit or fill) is the oldest, and the new line becomes most recently used.
C6_EvictsLeastRecentlyUsed ==
    (cstatus = "built" /\ last.result = "Miss" /\ last.full) =>
        LET s == last.set_index
            set == cache.sets[s]
        IN  /\ \E t \in last.evicted :
                  /\ last.evicted = {t}
                  /\ \A t2 \in Resident(set) :
                        lastUse[<<s, t>>].used < lastUse[<<s, t2>>].used
            /\ set.lines[set.lru_order[1]] = [tag |-> last.tag, valid |-> TRUE]

\* a miss in a full 3-way set, after a hit, that evicts a line filled later than
\* a line that stays
C6_Witness ==
    /\ cstatus = "built"
    /\ last.result = "Miss"
    /\ last.full
    /\ last.hit_before
    /\ cache.config.associativity = 3
    /\ \E t \in last.evicted :
          \E t2 \in Resident(cache.sets[last.set_index]) \ {last.tag} :
             lastUse[<<last.set_index, t>>].filled
                 > lastUse[<<last.set_index, t2>>].filled

\* C7: construction fails unless the geometry yields a positive power-of-two set
\* count: every cache that was constructed has a power-of-two number of sets.
C7_SetCountIsPowerOfTwo ==
    cstatus = "built" => IsPow2(num_sets(cache.config))

\* C9: every access uses line index = address / line_size, set index = line index
\* mod number_of_sets and tag = line index / number_of_sets.
C9_AddressDecomposition ==
    (cstatus = "built" /\ clock > 0) =>
        LET line_index == last.address \div cache.config.line_size
            n == num_sets(cache.config)
        IN  /\ last.set_index = line_index % n
            /\ last.tag = line_index \div n

\* C11: an access to an address immediately followed by an access to the same
\* address, or to any address of the same line (address / line_size), returns Hit
\* on the second access; the first access to an empty cache is a Miss.
C11_RepeatedAccessHits ==
    [][(cstatus = "built" /\ clock' = clock + 1) =>
          /\ (clock = 0 => last'.result = "Miss")
          /\ (clock > 0 /\ last'.address \div cache.config.line_size
                              = last.address \div cache.config.line_size)
                => last'.result = "Hit"]_vars

\* the set index and the tag an address decomposes into in the built cache
SetOf(address) == address_to_set_and_tag(cache, address).set_index
TagOf(address) == address_to_set_and_tag(cache, address).tag

\* C12: in a direct-mapped cache, starting empty, the accesses A, B, A where B
\* maps to the set of A with a different tag yield Miss, Miss, Miss: the access
\* to B evicts the line of A.
C12_ConflictMissesDirectMapped ==
    (/\ cstatus = "built"
     /\ cache.config.associativity = 1
     /\ Len(history) = 3
     /\ history[3].address = history[1].address
     /\ SetOf(history[2].address) = SetOf(history[1].address)
     /\ TagOf(history[2].address) # TagOf(history[1].address)) =>
        /\ history[1].result = "Miss"
        /\ history[2].result = "Miss"
        /\ history[3].result = "Miss"

\* the sequence of the conflict test, scaled to 2-byte lines: 4 sets, direct
\* mapped, addresses 0, 8, 0
C12_Witness ==
    /\ cstatus = "built"
    /\ cache.config = [size_bytes |-> 8, line_size |-> 2, associativity |-> 1,
                       hit_latency_cycles |-> 1]
    /\ history = <<[address |-> 0, result |-> "Miss"],
                   [address |-> 8, result |-> "Miss"],
                   [address |-> 0, result |-> "Miss"]>>

----------------------------------------------------------------------------
(* The engine: metrics counters, ownership, accesses, stage order. *)

\* the counters of a per-core entry
PerCoreFields == {"memory_accesses", "cache_hits", "cache_misses", "memory_stall_cycles"}

\* the aggregate counters
TotalFields == {"total_cycles", "total_memory_accesses", "cache_hits", "cache_misses",
                "memory_stall_cycles"}

\* C15: no step lowers a metrics counter, aggregate or per core, and no step
\* removes a per-core entry.
C15_CountersMonotone ==
    [][nsteps' = nsteps + 1 =>
          /\ \A f \in TotalFields : metrics[f] <= metrics'[f]
          /\ DOMAIN metrics.per_core \subseteq DOMAIN metrics'.per_core
          /\ \A c \in DOMAIN metrics.per_core :
                \A f \in PerCoreFields : metrics.per_core[c][f] <= metrics'.per_core[c][f]]_vars

\* after a miss that stalled and a hit, steps were taken that count nothing new
C15_Witness ==
    /\ pc = "returned"
    /\ metrics.cache_hits = 1
    /\ metrics.cache_misses = 1
    /\ metrics.memory_stall_cycles >= 2
    /\ \E c \in DOMAIN metrics.per_core : metrics.per_core[c].memory_stall_cycles >= 2
    /\ metrics.total_cycles > 4

\* C16: after every step the pending queue, pipeline, cache and per-core counters
\* of core c are those of an engine of the same configuration that runs the
\* streams routed to c alone for the same number of steps: they are a function
\* of those streams and the configuration, whatever the other cores were given.
C16_CoresDoNotInterfere ==
    pc \in {"loaded", "running", "returned"} =>
        /\ DOMAIN solo = DOMAIN cores
        /\ \A c \in DOMAIN cores :
              /\ cores[c] = solo[c].cores[0]
              /\ c \in DOMAIN metrics.per_core <=> 0 \in DOMAIN solo[c].metrics.per_core
              /\ c \in DOMAIN metrics.per_core =>
                    metrics.per_core[c] = solo[c].metrics.per_core[0]

\* core 1 has retired its instruction while a load is still in Memory on core 0
C16_Witness ==
    /\ num_cores = 2
    /\ nsteps >= 3
    /\ retired[1] # << >>
    /\ \E i \in 1..Len(cores[0].pipeline) : cores[0].pipeline[i].stage = "Memory"
    /\ DOMAIN metrics.per_core = {0}

\* the ids of the Load and Store instructions of the streams routed to core c
MemOpsRouted(c) ==
    LET streams == RoutedStreams(given.thread_workloads, c, num_cores)
    IN  UNION {{streams[j][k].id : k \in
                   {k \in 1..Len(streams[j]) : streams[j][k].kind \in {"Load", "Store"}}}
               : j \in DOMAIN streams}

\* the ids of the instructions of core c that have not left Execute yet
BeforeMemory(c) ==
    {cores[c].workload[i].id : i \in 1..Len(cores[c].workload)}
        \cup {cores[c].pipeline[i].id : i \in
                 {i \in 1..Len(cores[c].pipeline) :
                     cores[c].pipeline[i].stage \in {"Fetch", "Execute"}}}

\* the accesses recorded for core c
RecordedFor(c) ==
    IF c \in DOMAIN metrics.per_core THEN metrics.per_core[c].memory_accesses ELSE 0

\* C17: the accesses recorded for a core are one per Load/Store routed to it that
\* has left Execute and none for a Compute; the total is their sum over the
\* cores. When a run completes the total is the number of Load/Store
\* instructions loaded, and per core the number routed to that core.
C17_OneAccessPerMemoryOp ==
    pc \in {"loaded", "running", "returned"} =>
        /\ \A c \in DOMAIN cores :
              RecordedFor(c) = Cardinality(MemOpsRouted(c) \ BeforeMemory(c))
        /\ metrics.total_memory_accesses
              = Cardinality(UNION {MemOpsRouted(c) \ BeforeMemory(c) : c \in DOMAIN cores})
        /\ pc = "returned" =>
              /\ \A c \in DOMAIN cores : RecordedFor(c) = Cardinality(MemOpsRouted(c))
              /\ metrics.total_memory_accesses
                    = Cardinality(UNION {MemOpsRouted(c) : c \in DOMAIN cores})

\* a completed run of one Load or Store on core 0 and a Compute on core 1
C17_Witness ==
    /\ pc = "returned"
    /\ num_cores = 2
    /\ metrics.total_memory_accesses = 1
    /\ Cardinality(MemOpsRouted(0)) = 1
    /\ retired[1] # << >>

\* the stage changes the step function defines
StageChange(instr, from, to) ==
    \/ from = "Fetch" /\ to = "Execute"
    \/ from = "Execute" /\ to = "Memory" /\ instr.kind \in {"Load", "Store"}
    \/ from = "Execute" /\ to = "Commit" /\ instr.kind = "Compute"
    \/ from = "Memory" /\ to = "Commit"

\* C18: over a step an instruction in a pipeline keeps its stage or makes one of
\* the changes Fetch->Execute, Execute->Memory (Load/Store), Execute->Commit
\* (Compute), Memory->Commit; it leaves the pipeline only from Commit, and an
\* instruction enters a pipeline only from the pending queue, in Fetch.
C18_StagesMoveForward ==
    [][nsteps' = nsteps + 1 =>
          \A c \in DOMAIN cores :
              /\ \A id \in IdsOf(cores[c].pipeline) :
                    LET instr == InstrOf(cores[c].pipeline, id)
                    IN  IF id \in IdsOf(cores'[c].pipeline)
                        THEN \/ InstrOf(cores'[c].pipeline, id).stage = instr.stage
                             \/ StageChange(instr, instr.stage,
                                            InstrOf(cores'[c].pipeline, id).stage)
                        ELSE instr.stage = "Commit"
              /\ \A id \in IdsOf(cores'[c].pipeline) \ IdsOf(cores[c].pipeline) :
                    /\ id \in IdsOf(cores[c].workload)
                    /\ InstrOf(cores'[c].pipeline, id).stage = "Fetch"]_vars

\* two loads of one core, one that hit and one that missed, have left Execute and
\* one of them has reached Commit
C18_Witness ==
    \E c \in DOMAIN cores :
        /\ Len(cores[c].pipeline) = 2
        /\ \A i \in 1..2 : /\ cores[c].pipeline[i].kind = "Load"
                            /\ cores[c].pipeline[i].stage \in {"Memory", "Commit"}
        /\ metrics.cache_hits = 1
        /\ \E i \in 1..2 : cores[c].pipeline[i].stage = "Commit"

\* the stall cycles counted for core c
StallCyclesFor(c) ==
    IF c \in DOMAIN metrics.per_core THEN metrics.per_core[c].memory_stall_cycles ELSE 0

\* the misses counted for core c
MissesFor(c) ==
    IF c \in DOMAIN metrics.per_core THEN metrics.per_core[c].cache_misses ELSE 0

\* the sum of f over the cores
RECURSIVE SumOver(_, _)
SumOver(f, S) ==
    IF S = {} THEN 0
    ELSE LET c == CHOOSE x \in S : TRUE IN f[c] + SumOver(f, S \ {c})

\* C21: when a run completes, the stall-cycle counter, in total and per core, is
\* the number of steps in which an instruction sat stalled in Memory with its
\* countdown running, which is the number of misses times the memory latency.
C21_StallCyclesCountedOnce ==
    pc = "returned" =>
        /\ \A c \in DOMAIN cores :
              /\ StallCyclesFor(c) = log.stall_steps[c]
              /\ StallCyclesFor(c) = MissesFor(c) * access_latency_cycles(memory)
        /\ metrics.memory_stall_cycles = SumOver(log.stall_steps, DOMAIN cores)
        /\ metrics.memory_stall_cycles
              = metrics.cache_misses * access_latency_cycles(memory)

\* an instruction as the substage that put it into its stage left it
JustEntered(instr, hit_latency, mem) ==
    CASE instr.stage = "Fetch" -> instr.stage_cycles_left = fetch_cycles
      [] instr.stage = "Execute" -> instr.stage_cycles_left = execute_cycles
      [] instr.stage = "Memory" ->
            IF instr.stalled
            THEN instr.stall_cycles_left = access_latency_cycles(mem)
            ELSE instr.stage_cycles_left = hit_latency
      [] instr.stage = "Commit" -> instr.stage_cycles_left = commit_cycles

\* C22: an instruction makes at most one stage transition per step. After a
\* step, an instruction that the step admitted or moved to another stage is
\* still in the pipeline, in the state in which the admitting or moving
\* substage left it: the countdown of its new stage has not started and no
\* later substage of the same step has touched it.
C22_OneTransitionPerStep ==
    [][nsteps' = nsteps + 1 =>
          \A c \in DOMAIN cores :
              /\ \A id \in IdsOf(cores'[c].pipeline) :
                    (\/ id \notin IdsOf(cores[c].pipeline)
                     \/ InstrOf(cores[c].pipeline, id).stage
                           # InstrOf(cores'[c].pipeline, id).stage)
                    => JustEntered(InstrOf(cores'[c].pipeline, id),
                                   hit_latency_cycles(cores[c].cache), memory)
              /\ \A id \in IdsOf(cores[c].pipeline) \ IdsOf(cores'[c].pipeline) :
                    /\ InstrOf(cores[c].pipeline, id).stage = "Commit"
                    /\ InstrOf(cores[c].pipeline, id).stage_cycles_left = 0]_vars

\* a step has just moved a load that missed into Memory and a compute into
\* Commit; the stall countdown of the load stands at the memory latency
C22_Witness ==
    \E c \in DOMAIN cores :
        /\ access_latency_cycles(memory) = 2
        /\ \E i \in 1..Len(cores[c].pipeline) :
              /\ cores[c].pipeline[i].stage = "Memory"
              /\ cores[c].pipeline[i].stalled
              /\ cores[c].pipeline[i].stall_cycles_left = 2
        /\ \E i \in 1..Len(cores[c].pipeline) :
              /\ cores[c].pipeline[i].stage = "Commit"
              /\ cores[c].pipeline[i].stage_cycles_left = commit_cycles

\* a pending instruction as admission puts it into the pipeline
Admitted(instr) == [instr EXCEPT !.stage = "Fetch", !.stage_cycles_left = fetch_cycles]

\* C23: admission is FIFO and work-conserving. Over every step of a core the
\* instructions that entered the pipeline are a prefix of the pending queue,
\* appended behind the instructions already in flight in queue order, each
\* in Fetch with the configured fetch duration; the rest of the queue is
\* unchanged; and after the step the pipeline holds exactly pipeline_width
\* instructions or the pending queue is empty.
C23_AdmissionFifoWorkConserving ==
    [][nsteps' = nsteps + 1 =>
          \A c \in DOMAIN cores :
              LET k == Len(cores[c].workload) - Len(cores'[c].workload)
                  n == Len(cores'[c].pipeline)
              IN  /\ k >= 0
                  /\ k <= n
                  /\ cores'[c].workload
                        = SubSeq(cores[c].workload, k + 1, Len(cores[c].workload))
                  /\ SubSeq(cores'[c].pipeline, n - k + 1, n)
                        = [i \in 1..k |-> Admitted(cores[c].workload[i])]
                  /\ IdsOf(SubSeq(cores'[c].pipeline, 1, n - k))
                        \subseteq IdsOf(cores[c].pipeline)
                  /\ \/ n = cores[c].pipeline_width
                     \/ cores'[c].workload = << >>]_vars

\* the first instruction of a queue has retired and a step has admitted the
\* second into the place it left: the pipeline of width 1 is full again
C23_Witness ==
    \E c \in DOMAIN cores :
        /\ nsteps > 0
        /\ cores[c].pipeline_width = 1
        /\ Len(cores[c].pipeline) = 1
        /\ cores[c].pipeline[1].stage = "Fetch"
        /\ cores[c].pipeline[1].stage_cycles_left = fetch_cycles
        /\ cores[c].pipeline[1].id[2] = 2
        /\ Len(retired[c]) = 1
        /\ retired[c][1] = <<cores[c].pipeline[1].id[1], 1>>

\* the streams j, j + 1, ... of a family of streams, one after another
RECURSIVE Concat(_, _)
Concat(streams, j) ==
    IF j \notin DOMAIN streams THEN << >>
    ELSE streams[j] \o Concat(streams, j + 1)

\* the ids of the instructions core c holds or has retired
IdsOn(c) ==
    IdsOf(cores[c].workload) \cup IdsOf(cores[c].pipeline)
        \cup {retired[c][i] : i \in 1..Len(retired[c])}

\* C24: load_workload routes the whole stream of thread t, in its order, to
\* the pending queue of core t mod num_cores and to no other core: before the
\* first step the queue of core c is the streams of the threads t with
\* t mod num_cores = c, one whole stream after another in ascending thread
\* id; and at any later time every instruction a core holds or has retired
\* belongs to a thread routed to that core.
C24_StreamsRoutedInOrder ==
    pc \in {"loaded", "running", "returned"} =>
        \A c \in DOMAIN cores :
            /\ nsteps = 0 =>
                  /\ cores[c].workload
                        = Concat(RoutedStreams(given.thread_workloads, c, num_cores), 0)
                  /\ cores[c].pipeline = << >>
            /\ \A id \in IdsOn(c) : id[1] % num_cores = c
            /\ \A d \in DOMAIN cores : d # c => IdsOn(c) \cap IdsOn(d) = {}

\* two threads are routed to one core: its queue holds the stream of thread 0
\* and behind it the stream of thread 1
C24_Witness ==
    /\ pc = "loaded"
    /\ nsteps = 0
    /\ num_cores = 1
    /\ Len(cores[0].workload) = 2
    /\ cores[0].workload[1].id = <<0, 1>>
    /\ cores[0].workload[2].id = <<1, 1>>

\* the ids of the instructions handed to load_workload
LoadedIds ==
    UNION {IdsOf(given.thread_workloads[t]) : t \in DOMAIN given.thread_workloads}

\* the number of instructions handed to load_workload
RECURSIVE LoadedCount(_, _)
LoadedCount(tw, t) ==
    IF t \notin DOMAIN tw THEN 0 ELSE Len(tw[t]) + LoadedCount(tw, t + 1)

\* pending + in-flight + retired of core c
HeldBy(c) == Len(cores[c].workload) + Len(cores[c].pipeline) + Len(retired[c])

\* C25: instruction conservation. At every step boundary after a load, each
\* loaded instruction is in exactly one of the pending queue, the pipeline
\* and the retired instructions of one core (no id occurs twice on a core or
\* on two cores, and the ids held are the ids loaded), so pending + in-flight
\* + retired, summed over the cores, is the number of instructions loaded.
\* Over every step an instruction leaves the pending queue only into the
\* pipeline and leaves the pipeline only from Commit into the retired ones,
\* and it returns neither to the queue nor to the pipeline.
C25_InstructionsConserved ==
    /\ [](pc \in {"loaded", "running", "returned"} =>
            /\ \A c \in DOMAIN cores : Cardinality(IdsOn(c)) = HeldBy(c)
            /\ \A c, d \in DOMAIN cores : c # d => IdsOn(c) \cap IdsOn(d) = {}
            /\ UNION {IdsOn(c) : c \in DOMAIN cores} = LoadedIds
            /\ SumOver([c \in DOMAIN cores |-> HeldBy(c)], DOMAIN cores)
                  = LoadedCount(given.thread_workloads, 0))
    /\ [][nsteps' = nsteps + 1 =>
            \A c \in DOMAIN cores :
                /\ IdsOf(cores'[c].workload) \subseteq IdsOf(cores[c].workload)
                /\ IdsOf(cores[c].workload) \ IdsOf(cores'[c].workload)
                      \subseteq IdsOf(cores'[c].pipeline)
                /\ IdsOf(cores'[c].pipeline)
                      \subseteq IdsOf(cores[c].pipeline) \cup IdsOf(cores[c].workload)
                /\ \A id \in IdsOf(cores[c].pipeline) \ IdsOf(cores'[c].pipeline) :
                      /\ InstrOf(cores[c].pipeline, id).stage = "Commit"
                      /\ \E i \in (Len(retired[c]) + 1)..Len(retired'[c]) :
                            retired'[c][i] = id
                /\ SubSeq(retired'[c], 1, Len(retired[c])) = retired[c]]_vars

\* of the two instructions loaded on the only core, one has retired and the
\* other is in flight; nothing is pending
C25_Witness ==
    /\ pc \in {"loaded", "running"}
    /\ \E c \in DOMAIN cores :
          /\ Len(retired[c]) = 1
          /\ Len(cores[c].pipeline) = 1
          /\ cores[c].workload = << >>
          /\ LoadedCount(given.thread_workloads, 0) = 2
          /\ num_cores = 1

\* the steps from the admission of a Compute to its removal: the fetch, the
\* execute and the commit duration, and one step to leave each stage
ComputeSteps == (fetch_cycles + 1) + (execute_cycles + 1) + (commit_cycles + 1)

\* the same for a Load/Store that hits: the hit latency and the step that
\* leaves Memory on top
HitSteps(hit_latency) == ComputeSteps + hit_latency + 1

\* the outcome logged for the access of instruction id
OutcomeOf(id) ==
    LET c == thread_to_core(num_cores, id[1])
        i == CHOOSE i \in 1..Len(log.outcomes[c]) : log.outcomes[c][i].id = id
    IN  log.outcomes[c][i].result

\* the steps from the admission of a retired instruction to its removal
StepsInFlight(id) == log.retired_at[id] - log.admitted[id]

\* C26: the number of steps between admission and retirement depends only on
\* the kind of the instruction and on its own hit/miss outcome: every Compute
\* takes ComputeSteps, every hit HitSteps, and every miss exactly
\* memory_latency steps more than a hit, for every memory latency, 0 included.
C26_MissCostsMemoryLatency ==
    \A id \in DOMAIN log.retired_at :
        LET instr == given.thread_workloads[id[1]][id[2]]
            h == given.cache_config.hit_latency_cycles
        IN  StepsInFlight(id) =
                IF ~is_memory_op(instr) THEN ComputeSteps
                ELSE IF OutcomeOf(id) = "Hit" THEN HitSteps(h)
                ELSE HitSteps(h) + access_latency_cycles(memory)

\* the Load/Store instructions routed to core c, in queue order
MemOpSeq(c) ==
    SelectSeq(Concat(RoutedStreams(given.thread_workloads, c, num_cores), 0),
              is_memory_op)

RECURSIVE Replay(_, _, _)

\* r is what the access to the address of ops[i] returned
ReplayNext(r, ops, i) == <<r.result>> \o Replay(r.cache, ops, i + 1)

\* the outcomes of feeding the addresses of ops[i], ops[i + 1], ... to cache c
Replay(c, ops, i) ==
    IF i > Len(ops) THEN << >>
    ELSE ReplayNext(Cache_access(c, ops[i].address), ops, i)

\* a stand-alone cache of the geometry of the engine; its hit latency is 0
StandAlone ==
    Cache_new([given.cache_config EXCEPT !.hit_latency_cycles = 0])

\* how often outcome x occurs in a sequence of outcomes
Occurrences(seq, x) == Cardinality({i \in 1..Len(seq) : seq[i] = x})

\* a field of the metrics entry of core c
PerCore(c, field) ==
    IF c \in DOMAIN metrics.per_core THEN metrics.per_core[c][field] ELSE 0

\* C27: each core accesses its cache in pending-queue order. The outcomes
\* logged for a core are, access for access, those of feeding the addresses
\* of the Load/Store instructions routed to the core, in queue order, to a
\* stand-alone cache of the same geometry; when the run has completed every
\* one of them has been made, and the hits and misses counted for the core
\* are those of the stand-alone cache, whatever the pipeline width, the
\* memory latency and the hit latency of the engine. The first access of a
\* core misses, and an access to the address of the access before it hits.
C27_AccessesInProgramOrder ==
    pc \in {"loaded", "running", "returned"} =>
        \A c \in DOMAIN cores :
            /\ Len(log.outcomes[c]) <= Len(MemOpSeq(c))
            /\ log.outcomes[c] # << >> => log.outcomes[c][1].result = "Miss"
            /\ \A i \in 2..Len(log.outcomes[c]) :
                  log.outcomes[c][i].address = log.outcomes[c][i - 1].address
                      => log.outcomes[c][i].result = "Hit"
            /\ \A i \in 1..Len(log.outcomes[c]) :
                  /\ log.outcomes[c][i].id = MemOpSeq(c)[i].id
                  /\ log.outcomes[c][i].result = Replay(StandAlone, MemOpSeq(c), 1)[i]
            /\ pc = "returned" =>
                  /\ Len(log.outcomes[c]) = Len(MemOpSeq(c))
                  /\ PerCore(c, "cache_hits")
                        = Occurrences(Replay(StandAlone, MemOpSeq(c), 1), "Hit")
                  /\ PerCore(c, "cache_misses")
                        = Occurrences(Replay(StandAlone, MemOpSeq(c), 1), "Miss")

\* a completed run in which one core has made two accesses to one address:
\* Miss, then Hit
C27_Witness ==
    /\ pc = "returned"
    /\ \E c \in DOMAIN cores :
          /\ Len(log.outcomes[c]) = 2
          /\ log.outcomes[c][1].address = log.outcomes[c][2].address
          /\ log.outcomes[c][1].result = "Miss"
          /\ log.outcomes[c][2].result = "Hit"
          /\ PerCore(c, "cache_hits") = 1
          /\ PerCore(c, "cache_misses") = 1

\* the aggregate counter that a per-core counter breaks out
TotalOf(field) ==
    IF field = "memory_accesses" THEN "total_memory_accesses" ELSE field

\* the sum over the cores of a per-core counter
RECURSIVE PerCoreSum(_, _, _)
PerCoreSum(m, field, S) ==
    IF S = {} THEN 0
    ELSE m.per_core[CHOOSE c \in S : TRUE][field]
            + PerCoreSum(m, field, S \ {CHOOSE c \in S : TRUE})

\* C28: the per-core breakdown is consistent with the totals. In every state
\* each aggregate counter (accesses, hits, misses, stall cycles) is the sum of
\* the per-core counters over the entries of the breakdown, and every entry
\* belongs to a core of the engine; over every step the entry of a core
\* changes (or appears) only if an instruction of that core accessed the
\* cache or sat stalled in that step, and its access counter grows by the
\* number of accesses of that core.
C28_BreakdownMatchesTotals ==
    /\ [](/\ \A f \in PerCoreFields :
               metrics[TotalOf(f)] = PerCoreSum(metrics, f, DOMAIN metrics.per_core)
          /\ DOMAIN metrics.per_core \subseteq DOMAIN cores)
    /\ [][nsteps' = nsteps + 1 =>
            \A c \in DOMAIN cores :
                /\ (SelectSeq(cores[c].pipeline, Accesses) = << >>
                      /\ StallTicks(cores[c].pipeline) = 0)
                   => /\ (c \in DOMAIN metrics'.per_core) = (c \in DOMAIN metrics.per_core)
                      /\ \A f \in PerCoreFields :
                            IF c \in DOMAIN metrics.per_core
                            THEN metrics'.per_core[c][f] = metrics.per_core[c][f]
                            ELSE TRUE
                /\ (IF c \in DOMAIN metrics'.per_core
                    THEN metrics'.per_core[c].memory_accesses ELSE 0)
                     = PerCore(c, "memory_accesses")
                          + Len(SelectSeq(cores[c].pipeline, Accesses))]_vars

\* both cores of an engine have made an access: each has its own entry, and
\* the total is 2
C28_Witness ==
    /\ DOMAIN metrics.per_core = {0, 1}
    /\ metrics.per_core[0].memory_accesses = 1
    /\ metrics.per_core[1].memory_accesses = 1
    /\ metrics.total_memory_accesses = 2
    /\ metrics.memory_stall_cycles > 0

----------------------------------------------------------------------------
(* The scheduler: the forward and the reverse mapping. *)

\* C13: with at least one core, thread_to_core(t) is t mod num_cores, a valid
\* core id, and every call for a thread returns the core its first call returned.
C13_ThreadToCoreRoundRobin ==
    (sstatus = "built" /\ slast.op = "thread_to_core" /\ sched.num_cores >= 1) =>
        /\ slast.core \in 0..(sched.num_cores - 1)
        /\ \E q \in 0..slast.arg : slast.arg = q * sched.num_cores + slast.core
        /\ slast.arg \in DOMAIN assigned
        /\ assigned[slast.arg] = slast.core

\* thread 5 on 3 cores, asked for a second time after another thread
C13_Witness ==
    /\ sstatus = "built"
    /\ sched.num_cores = 3
    /\ slast.op = "thread_to_core"
    /\ slast.arg = 5
    /\ slast.core = 2
    /\ scalls = 3
    /\ Cardinality(DOMAIN assigned) = 2

\* C14: core_to_thread(c) is None for c >= num_cores and, for c < num_cores,
\* Some(t) with t an existing thread that thread_to_core maps to c; for every
\* combination of core count and thread count.
C14_ReverseMappingConsistent ==
    (sstatus = "built" /\ slast.op = "core_to_thread") =>
        IF slast.arg < sched.num_cores
        THEN /\ slast.thread.some
             /\ slast.thread.value < sched.num_threads
             /\ thread_to_core(sched.num_cores, slast.thread.value) = slast.arg
        ELSE slast.thread = None

----------------------------------------------------------------------------
(* The metrics: the derived queries. *)

\* x is a / n up to one unit of 2^-k: |floor(x * 2^k) - (a / n) * 2^k| <= 1
Near(x, a, n, k) ==
    /\ Scaled(x, k) * n - a * Pow2(k) <= n
    /\ a * Pow2(k) - Scaled(x, k) * n <= n

\* C19: with at least one access recorded, hit_rate is hits/(hits+misses),
\* miss_rate is misses/(hits+misses) and their sum is 1; with none recorded
\* hit_rate is 1.0 and miss_rate is 0.0.
C19_RatesSumToOne ==
    queried.op = "rates" =>
        IF queried.cache_hits + queried.cache_misses = 0
        THEN queried.hit_rate = as_f64(1) /\ queried.miss_rate = F64Zero
        ELSE /\ Near(queried.hit_rate, queried.cache_hits,
                     queried.cache_hits + queried.cache_misses, 20)
             /\ Near(queried.miss_rate, queried.cache_misses,
                     queried.cache_hits + queried.cache_misses, 20)
             /\ add_f64(queried.hit_rate, queried.miss_rate) = as_f64(1)

\* the rates of one hit in three accesses, neither of them a binary fraction
C19_Witness ==
    /\ queried.op = "rates"
    /\ queried.cache_hits = 1
    /\ queried.cache_misses = 2
    /\ queried.hit_rate = div_f64(1, 3)
    /\ queried.miss_rate # F64Zero

\* C20: for every ideal cycle count supplied, slowdown_percent is 0 when the
\* actual total cycles are at most the ideal ones, and (actual - ideal) / ideal
\* * 100 otherwise.
C20_SlowdownPercent ==
    queried.op = "slowdown_percent" =>
        IF queried.total_cycles <= queried.ideal_cycles
        THEN queried.slowdown_percent = F64Zero
        ELSE /\ queried.ideal_cycles # 0
             /\ Near(queried.slowdown_percent,
                     100 * (queried.total_cycles - queried.ideal_cycles),
                     queried.ideal_cycles, 10)

\* C20, amended: slowdown_percent is 0 when the ideal cycle count is 0 or the
\* actual total cycles are at most the ideal ones; otherwise it is
\* (actual - ideal) / ideal * 100 up to rounding, and exactly 17 for 117 actual
\* and 100 ideal cycles.
C20_SlowdownPercentAmended ==
    queried.op = "slowdown_percent" =>
        IF queried.ideal_cycles = 0 \/ queried.total_cycles <= queried.ideal_cycles
        THEN queried.slowdown_percent = F64Zero
        ELSE /\ Near(queried.slowdown_percent,
                     100 * (queried.total_cycles - queried.ideal_cycles),
                     queried.ideal_cycles, 10)
             /\ (queried.total_cycles = 117 /\ queried.ideal_cycles = 100) =>
                   queried.slowdown_percent = as_f64(17)

\* the slowdown of 117 cycles against 100 ideal cycles was asked for
C20_Witness ==
    /\ queried.op = "slowdown_percent"
    /\ queried.total_cycles = 117
    /\ queried.ideal_cycles = 100
    /\ queried.slowdown_percent = as_f64(17)

\* the ways of a set that hold a valid line
ValidWays(set) == {w \in DOMAIN set.lines : set.lines[w].valid}

\* C29: in every reachable cache no two valid lines of a set hold the same
\* tag, and an access changes the lines and the recency order of no set but
\* the one its address maps to.
C29_AccessTouchesOneSet ==
    /\ [](cstatus = "built" =>
            \A s \in DOMAIN cache.sets :
                \A w, v \in ValidWays(cache.sets[s]) :
                    w # v => cache.sets[s].lines[w].tag # cache.sets[s].lines[v].tag)
    /\ [][clock' = clock + 1 =>
            /\ DOMAIN cache'.sets = DOMAIN cache.sets
            /\ \A s \in DOMAIN cache.sets :
                  s # address_to_set_and_tag(cache, last'.address).set_index
                      => cache'.sets[s] = cache.sets[s]]_vars

\* a cache of two sets after accesses to a line of set 0 and a line of set 1
\* and a second access to each: Miss, Miss, Hit, Hit
C29_Witness ==
    /\ cstatus = "built"
    /\ DOMAIN cache.sets = {0, 1}
    /\ Len(history) = 4
    /\ address_to_set_and_tag(cache, history[1].address).set_index = 0
    /\ address_to_set_and_tag(cache, history[2].address).set_index = 1
    /\ history[3].address = history[1].address
    /\ history[4].address = history[2].address
    /\ history[1].result = "Miss"
    /\ history[2].result = "Miss"
    /\ history[3].result = "Hit"
    /\ history[4].result = "Hit"

====
